---------------------------- MODULE Spec2Model ----------------------------
(***************************************************************************)
(* Object-detection utilities of rastervision2:                            *)
(*   rastervision2/pytorch_learner/object_detection_utils.py               *)
(*   rastervision2/pytorch_backend/pytorch_object_detection.py             *)
(*                                                                         *)
(* A tensor of shape (n, 4) is a sequence of n boxes, each a 4-tuple; a    *)
(* tensor of shape (n,) is a sequence of n numbers.  Coordinates, labels   *)
(* and scores are integers (scores in units of one score quantum).         *)
(* Python indices are 0-based; the sequences here are 1-based, so image    *)
(* index ind of the source is position ind + 1 here.  A Python exception   *)
(* is the value Raise(kind).                                               *)
(***************************************************************************)
EXTENDS Integers, Sequences, FiniteSets

VARIABLES
    call,   \* the invocation being run: the function and its arguments
    ret,    \* what the last invocation returned or raised
    extern, \* the calls made to the collaborators (detector, evaluator, files)
    heap,   \* the instances alive, by identity (position)
    place,  \* per instance: the device and pinned state of its tensors
    ds      \* the fields of a CocoDataset

vars == <<call, ret, extern, heap, place, ds>>

\* what a call of a function leaves alone
objects == <<heap, place, ds>>

---------------------------------------------------------------------------
(* Bounds of the model.                                                    *)

\* rows of a BoxList drawn as an input
MaxRows == 3

\* values the inputs are drawn from
BoxVals == {<<0, 1, 2, 4>>, <<-1, 0, 5, 2>>}
LabelVals == {0, 1, 2}
ScoreVals == {1, 2, 3}

---------------------------------------------------------------------------
(* Python values.                                                          *)

None == [none |-> TRUE]
IsNone(v) == "none" \in DOMAIN v
\* an argument that may be None holds None or Some(value)
Some(v) == [some |-> v]
Raise(kind) == [err |-> kind]
Raised(v) == "err" \in DOMAIN v
\* a returned value that is no record (a boolean, a list) is wrapped
Return(v) == [val |-> v]
Pending == [pending |-> TRUE]
IsPending(v) == "pending" \in DOMAIN v

\* all sequences over S of length at most n
SeqsUpTo(S, n) == UNION {[1..k -> S] : k \in 0..n}

\* the positions of a sequence that hold TRUE, ascending
RECURSIVE TrueInds(_, _)
TrueInds(mask, i) ==
    IF i > Len(mask) THEN <<>>
    ELSE (IF mask[i] THEN <<i>> ELSE <<>>) \o TrueInds(mask, i + 1)

\* torch.cat of a non-empty list of tensors along dimension 0
RECURSIVE TorchCat(_)
TorchCat(ts) ==
    IF Len(ts) = 0 THEN <<>> ELSE Head(ts) \o TorchCat(Tail(ts))

\* Tensor.float(): the nearest float32 (ties to even) of an integer
RECURSIVE Ulp(_)
Ulp(x) == IF x < 2^24 THEN 1 ELSE 2 * Ulp(x \div 2)

Abs(x) == IF x < 0 THEN 0 - x ELSE x

ToFloat(x) ==
    LET a == Abs(x)
        u == Ulp(a)
        q == a \div u
        r == a % u
        up == IF 2 * r > u \/ (2 * r = u /\ q % 2 = 1) THEN q + 1 ELSE q
    IN  IF x < 0 THEN 0 - up * u ELSE up * u

---------------------------------------------------------------------------
(* class BoxList                                                           *)

\* the order in which every constructor call of the source passes the extras
KeyOrder == <<"labels", "scores">>

BoxList(boxes, extras) == [boxes |-> boxes, extras |-> extras]

has_field(bl, name) == name \in DOMAIN bl.extras

get_field(bl, name) ==
    IF name = "boxes" THEN bl.boxes
    ELSE IF has_field(bl, name) THEN bl.extras[name] ELSE None

len(bl) == Len(bl.boxes)

\* boxes[:, [1, 0, 3, 2]]
SwapCols(boxes) ==
    [i \in 1..Len(boxes) |->
        <<boxes[i][2], boxes[i][1], boxes[i][4], boxes[i][3]>>]

xyxy(bl) == BoxList(SwapCols(bl.boxes), bl.extras)

yxyx(bl) == BoxList(SwapCols(bl.boxes), bl.extras)

\* the keys of the extras in insertion order
ExtrasKeys(bl) == SelectSeq(KeyOrder, LAMBDA k : has_field(bl, k))

\* one row of torch.cat([boxes] + extras, 1) as a tuple
RowTuple(bl, i) ==
    LET ks == ExtrasKeys(bl)
    IN  bl.boxes[i] \o [j \in 1..Len(ks) |-> ToFloat(bl.extras[ks[j]][i])]

RowTuples(bl) == {RowTuple(bl, i) : i \in 1..len(bl)}

\* torch.cat along dimension 1 needs as many rows in every tensor
Stackable(bl) == \A k \in DOMAIN bl.extras : Len(bl.extras[k]) = len(bl)

equal(self, other) ==
    IF len(other) # len(self) THEN Return(FALSE)
    ELSE IF ~Stackable(self) \/ ~Stackable(other) THEN Raise("RuntimeError")
    ELSE Return(RowTuples(self) = RowTuples(other))

\* v[inds, ...]: inds is a boolean mask over the rows or a list of row indices
IndexError(v, inds) ==
    IF inds.kind = "mask" THEN Len(inds.val) # Len(v)
    ELSE \E j \in 1..Len(inds.val) : inds.val[j] \notin 1..Len(v)

IndexRows(v, inds) ==
    LET keep == IF inds.kind = "mask" THEN TrueInds(inds.val, 1) ELSE inds.val
    IN  [j \in 1..Len(keep) |-> v[keep[j]]]

Mask(m) == [kind |-> "mask", val |-> m]
Index(s) == [kind |-> "index", val |-> s]

ind_filter(self, inds) ==
    IF \E k \in DOMAIN self.extras : IndexError(self.extras[k], inds)
    THEN Raise("IndexError")
    ELSE IF IndexError(self.boxes, inds) THEN Raise("IndexError")
    ELSE BoxList(IndexRows(self.boxes, inds),
                 [k \in DOMAIN self.extras |-> IndexRows(self.extras[k], inds)])

score_filterGe(self, score_thresh) ==
    IF has_field(self, "scores")
    THEN ind_filter(self, Mask([i \in 1..Len(self.extras["scores"]) |->
                                  self.extras["scores"][i] >= score_thresh]))
    ELSE Raise("ValueError")

score_filter(self, score_thresh) ==
    IF has_field(self, "scores")
    THEN ind_filter(self, Mask([i \in 1..Len(self.extras["scores"]) |->
                                  self.extras["scores"][i] > score_thresh]))
    ELSE Raise("ValueError")

Min(a, b) == IF a < b THEN a ELSE b
Max(a, b) == IF a < b THEN b ELSE a

\* torch.clamp(x, 0, hi)
Clamp(x, hi) == IF x < 0 THEN 0 ELSE IF x > hi THEN hi ELSE x

clamp(self, img_height, img_width) ==
    BoxList([i \in 1..len(self) |->
                <<Clamp(self.boxes[i][1], img_height), Clamp(self.boxes[i][2], img_width),
                  Clamp(self.boxes[i][3], img_height), Clamp(self.boxes[i][4], img_width)>>],
            self.extras)

scale(self, yscale, xscale) ==
    BoxList([i \in 1..len(self) |->
                <<self.boxes[i][1] * yscale, self.boxes[i][2] * xscale,
                  self.boxes[i][3] * yscale, self.boxes[i][4] * xscale>>],
            self.extras)

\* the key sets of the inputs differ: torch.cat still joins what each key has
cat(box_lists) ==
    IF Len(box_lists) = 0 THEN Raise("RuntimeError")
    ELSE LET keys == UNION {DOMAIN box_lists[p].extras : p \in 1..Len(box_lists)}
             with(k) == SelectSeq(box_lists, LAMBDA bl : has_field(bl, k))
         IN  BoxList(TorchCat([p \in 1..Len(box_lists) |-> box_lists[p].boxes]),
                     [k \in keys |->
                         TorchCat([p \in 1..Len(with(k)) |-> with(k)[p].extras[k]])])

\* torchvision batched_nms: boxes of different classes are moved apart by
\* (largest coordinate + 1) per class, then greedy NMS in the order of
\* descending score keeps a box unless its IoU with a kept box is above the
\* threshold num/den
BoxArea(b) == (b[3] - b[1]) * (b[4] - b[2])

Intersection(a, b) ==
    Max(0, Min(a[3], b[3]) - Max(a[1], b[1])) * Max(0, Min(a[4], b[4]) - Max(a[2], b[2]))

IouAbove(a, b, num, den) ==
    LET inter == Intersection(a, b)
        union == BoxArea(a) + BoxArea(b) - inter
    IN  union > 0 /\ den * inter > num * union

MaxCoordinate(boxes) ==
    CHOOSE c \in {boxes[i][j] : i \in 1..Len(boxes), j \in 1..4} :
        \A i \in 1..Len(boxes), j \in 1..4 : boxes[i][j] <= c

OffsetBox(b, off) == <<b[1] + off, b[2] + off, b[3] + off, b[4] + off>>

RECURSIVE GreedyKeep(_, _, _, _, _)
GreedyKeep(boxes, order, kept, num, den) ==
    IF Len(order) = 0 THEN kept
    ELSE LET i == Head(order)
             drop == \E m \in 1..Len(kept) : IouAbove(boxes[kept[m]], boxes[i], num, den)
         IN  GreedyKeep(boxes, Tail(order), IF drop THEN kept ELSE Append(kept, i),
                        num, den)

\* the orders of the rows by descending score; rows of equal score in any order
ScoreOrders(scores) ==
    {o \in [1..Len(scores) -> 1..Len(scores)] :
        /\ \A i, j \in 1..Len(o) : i # j => o[i] # o[j]
        /\ \A i \in 1..(Len(o) - 1) : scores[o[i]] >= scores[o[i + 1]]}

batched_nms(boxes, scores, idxs, order, num, den) ==
    LET off == MaxCoordinate(boxes) + 1
        moved == [i \in 1..Len(boxes) |-> OffsetBox(boxes[i], idxs[i] * off)]
    IN  GreedyKeep(moved, order, <<>>, num, den)

\* nms(iou_thresh = num/den); a zero-row BoxList is returned itself (IsSelf)
IsSelf == [self |-> TRUE]

nms(self, order, num, den) ==
    IF len(self) = 0 THEN IsSelf
    ELSE IF ~has_field(self, "scores") \/ ~has_field(self, "labels")
    THEN Raise("TypeError")
    ELSE IF Len(self.extras["scores"]) # len(self) \/ Len(self.extras["labels"]) # len(self)
    THEN Raise("RuntimeError")
    ELSE ind_filter(self, Index(batched_nms(self.boxes, self.extras["scores"],
                                            self.extras["labels"], order, num, den)))

---------------------------------------------------------------------------
(* Inputs.                                                                 *)

\* a BoxList built from rows [box, labels, scores], keeping the given extras
FromRows(rows, keys) ==
    BoxList([i \in 1..Len(rows) |-> rows[i].box],
            [k \in keys |-> [i \in 1..Len(rows) |-> rows[i][k]]])

KeySets == {{"labels"}, {"labels", "scores"}}

BoxListsOver(rowVals, n) ==
    {FromRows(rows, keys) : rows \in SeqsUpTo(rowVals, n), keys \in KeySets}

\* inputs of equal: rows that differ in a label or in a score
EqRows == [box : {<<0, 1, 2, 4>>}, labels : {1, 2}, scores : {1, 2}]

\* inputs of score_filter: rows that differ in the box or in the score
SfRows == [box : BoxVals, labels : {1}, scores : ScoreVals]

\* the state of the parts a specification does not use
NoCalls == <<>>
NoObjects == heap = <<>> /\ place = <<>> /\ ds = <<>>

---------------------------------------------------------------------------
(* Calls of the pure BoxList methods: the arguments are drawn, the method  *)
(* runs once.                                                              *)

EqualCalls ==
    {[op |-> "equal", self |-> a, other |-> b] :
        a \in BoxListsOver(EqRows, MaxRows), b \in BoxListsOver(EqRows, MaxRows)}

ScoreFilterCalls ==
    {[op |-> "score_filter", self |-> a, score_thresh |-> t] :
        a \in BoxListsOver(SfRows, MaxRows), t \in ScoreVals}

InitCalls ==
    /\ call \in EqualCalls \cup ScoreFilterCalls
    /\ ret = Pending
    /\ extern = NoCalls
    /\ NoObjects

DoEqual ==
    /\ IsPending(ret)
    /\ call.op = "equal"
    /\ ret' = equal(call.self, call.other)
    /\ UNCHANGED <<call, extern, objects>>

DoScoreFilter ==
    /\ IsPending(ret)
    /\ call.op = "score_filter"
    /\ ret' = score_filter(call.self, call.score_thresh)
    /\ UNCHANGED <<call, extern, objects>>

NextCalls == DoEqual \/ DoScoreFilter

SpecCalls == InitCalls /\ [][NextCalls]_vars

---------------------------------------------------------------------------
(* class MyFasterRCNN: forward(input, targets).  input is a batch of n     *)
(* images of height h and width w; the wrapped detector is a collaborator  *)
(* whose losses and detections are any values of the right shape.          *)

\* images of a batch, rows of a target, rows of a detection
MaxBatch == 2
MaxTargetRows == 2
MaxDetRows == 2

ImageSizes == {<<2, 3>>, <<4, 4>>}
LossVals == {0, 1}

\* the losses the wrapped detector returns
DetectorLosses ==
    {"loss_box_reg", "loss_classifier", "loss_objectness", "loss_rpn_box_reg"}

\* rows of the targets: ground truth has labels and no scores
TargetRows ==
    {[box |-> <<0, 1, 2, 4>>, labels |-> 1, scores |-> 0],
     [box |-> <<-1, 0, 5, 2>>, labels |-> 2, scores |-> 0]}

Targets ==
    {FromRows(rows, {"labels"}) : rows \in SeqsUpTo(TargetRows, MaxTargetRows)}

\* rows of the detector's output, boxes in xyxy order
DetRows ==
    {[box |-> <<1, 0, 4, 2>>, labels |-> 0, scores |-> 1],
     [box |-> <<0, 2, 3, 5>>, labels |-> 1, scores |-> 2],
     [box |-> <<1, 0, 4, 2>>, labels |-> 2, scores |-> 3]}

\* the dict the detector returns for one image
Detections ==
    {[boxes |-> [i \in 1..Len(rows) |-> rows[i].box],
      labels |-> [i \in 1..Len(rows) |-> rows[i].labels],
      scores |-> [i \in 1..Len(rows) |-> rows[i].scores]] :
        rows \in SeqsUpTo(DetRows, MaxDetRows)}

\* `if targets:` is false for None and for an empty list
Truthy(targets) == ~IsNone(targets) /\ Len(targets.some) > 0

\* the target of one sample with the bogus background box appended
new_targetNonEmptyOnly(y, h, w) ==
    IF len(y) > 0 THEN y
    ELSE BoxList(y.boxes \o <<<<0, 0, h, w>>>>,
                 [labels |-> y.extras["labels"] \o <<0>>])

new_target(y, h, w) ==
    BoxList(y.boxes \o <<<<0, 0, h, w>>>>,
            [labels |-> y.extras["labels"] \o <<0>>])

\* the dict handed to the wrapped detector for one target
target_dict(bl) ==
    [boxes |-> xyxy(bl).boxes, labels |-> get_field(xyxy(bl), "labels")]

total_loss(loss_dict) ==
    loss_dict["loss_box_reg"] + loss_dict["loss_classifier"]
        + loss_dict["loss_objectness"] + loss_dict["loss_rpn_box_reg"]

\* the detector's output of one image as a BoxList in yxyx order
out_boxlist(out) ==
    yxyx(BoxList(out.boxes, [labels |-> out.labels, scores |-> out.scores]))

remove_bogusNone(bl) == bl

remove_bogus(bl) ==
    ind_filter(bl, Mask([i \in 1..Len(bl.extras["labels"]) |->
                           bl.extras["labels"][i] # 0]))

ForwardCallsOf(n) ==
    {[op |-> "forward", input |-> [n |-> n, h |-> sz[1], w |-> sz[2]],
      targets |-> t] :
        sz \in ImageSizes,
        t \in {None} \cup {Some(ts) : ts \in [1..n -> Targets]}}

ForwardCalls == UNION {ForwardCallsOf(n) : n \in 0..MaxBatch}

InitForward ==
    /\ call \in ForwardCalls
    /\ ret = Pending
    /\ extern = NoCalls
    /\ NoObjects

ForwardTrain ==
    /\ IsPending(ret)
    /\ call.op = "forward"
    /\ Truthy(call.targets)
    /\ LET input == call.input
           targets == call.targets.some
           new_targets ==
               [s \in 1..Len(targets) |-> new_target(targets[s], input.h, input.w)]
           _targets == [s \in 1..Len(targets) |-> target_dict(new_targets[s])]
       IN  \E losses \in [DetectorLosses -> LossVals] :
               /\ extern' = Append(extern,
                       [fn |-> "model", input |-> input, targets |-> Some(_targets)])
               /\ ret' = [k \in DetectorLosses \cup {"total_loss"} |->
                            IF k = "total_loss" THEN total_loss(losses)
                            ELSE losses[k]]
    /\ UNCHANGED <<call, objects>>

ForwardInfer ==
    /\ IsPending(ret)
    /\ call.op = "forward"
    /\ ~Truthy(call.targets)
    /\ \E out \in [1..call.input.n -> Detections] :
           LET boxlists == [s \in 1..Len(out) |-> out_boxlist(out[s])]
           IN  /\ extern' = Append(extern,
                       [fn |-> "model", input |-> call.input, targets |-> None,
                        out |-> out])
               /\ ret' = Return([s \in 1..Len(boxlists) |-> remove_bogus(boxlists[s])])
    /\ UNCHANGED <<call, objects>>

NextForward == ForwardTrain \/ ForwardInfer

SpecForward == InitForward /\ [][NextForward]_vars

---------------------------------------------------------------------------
(* Evaluation: get_coco_gt, get_coco_preds, compute_coco_eval.             *)

\* images of an evaluation, rows of a prediction, class count
MaxImages == 2
MaxPredRows == 1
MaxNumLabels == 3

\* the fake height and width of every ground-truth image
FakeSize == 1000

\* '{}.png'.format(img_id)
PngName(img_id) == <<img_id, ".png">>

\* str(label)
Str(label) == <<"str", label>>

\* box.float().tolist()
ToList(box) == [c \in 1..4 |-> ToFloat(box[c])]

\* [xmin, ymin, width, height] of a (ymin, xmin, ymax, xmax) box
CocoBBox(box) == <<box[2], box[1], box[4] - box[2], box[3] - box[1]>>

gt_image(img_id) ==
    [id |-> img_id, height |-> FakeSize, width |-> FakeSize,
     file_name |-> PngName(img_id)]

gt_annotation(ann_id, img_id, box, label) ==
    [id |-> ann_id, image_id |-> img_id, category_id |-> label,
     area |-> (box[3] - box[1]) * (box[4] - box[2]),
     bbox |-> CocoBBox(box), iscrowd |-> 0]

\* the annotations of one target: zip(boxes, labels) stops at the shorter
gt_annotationsSameIds(target, img_id, ann_id) ==
    LET labels == target.extras["labels"]
    IN  [i \in 1..Min(len(target), Len(labels)) |->
            gt_annotation(ann_id, img_id, ToList(target.boxes[i]), labels[i])]

gt_annotations(target, img_id, ann_id) ==
    LET labels == target.extras["labels"]
    IN  [i \in 1..Min(len(target), Len(labels)) |->
            gt_annotation(ann_id + i - 1, img_id, ToList(target.boxes[i]), labels[i])]

\* the loop over enumerate(targets, 1), from image img_id on
RECURSIVE gt_loop(_, _, _)
gt_loop(targets, img_id, ann_id) ==
    IF img_id > Len(targets) THEN [images |-> <<>>, annotations |-> <<>>]
    ELSE LET anns == gt_annotations(targets[img_id], img_id, ann_id)
             rest == gt_loop(targets, img_id + 1, ann_id + Len(anns))
         IN  [images |-> <<gt_image(img_id)>> \o rest.images,
              annotations |-> anns \o rest.annotations]

gt_category(label) ==
    [id |-> label, name |-> Str(label), supercategory |-> "super"]

get_coco_gt(targets, num_labels) ==
    IF \E s \in 1..Len(targets) : ~has_field(targets[s], "labels")
    THEN Raise("TypeError")
    ELSE [images |-> gt_loop(targets, 1, 1).images,
          annotations |-> gt_loop(targets, 1, 1).annotations,
          categories |-> [l \in 1..num_labels |-> gt_category(l - 1)]]

pred(img_id, box, label, score) ==
    [image_id |-> img_id, category_id |-> label, bbox |-> CocoBBox(box),
     score |-> score]

output_preds(output, img_id) ==
    LET labels == output.extras["labels"]
        scores == output.extras["scores"]
    IN  [i \in 1..Min(len(output), Min(Len(labels), Len(scores))) |->
            pred(img_id, ToList(output.boxes[i]), labels[i], scores[i])]

\* the loop over enumerate(outputs, 1), from image img_id on
RECURSIVE preds_loop(_, _)
preds_loop(outputs, img_id) ==
    IF img_id > Len(outputs) THEN <<>>
    ELSE output_preds(outputs[img_id], img_id) \o preds_loop(outputs, img_id + 1)

get_coco_predsSkipFirst(outputs) ==
    IF \E s \in 1..Len(outputs) :
           ~has_field(outputs[s], "labels") \/ ~has_field(outputs[s], "scores")
    THEN Raise("TypeError")
    ELSE Return(preds_loop(outputs, 2))

get_coco_preds(outputs) ==
    IF \E s \in 1..Len(outputs) :
           ~has_field(outputs[s], "labels") \/ ~has_field(outputs[s], "scores")
    THEN Raise("TypeError")
    ELSE Return(preds_loop(outputs, 1))

\* the evaluator (pycocotools) is a collaborator: loadRes demands that every
\* prediction names an image of the ground truth; the result object keeps
\* the ground truth and the predictions it accumulated
LoadResOk(gt, preds) ==
    \A i \in 1..Len(preds) :
        \E j \in 1..Len(gt.images) : gt.images[j].id = preds[i].image_id

coco_eval(gt, preds) == [cocoGt |-> gt, cocoDt |-> preds, accumulated |-> TRUE]

\* rows of the targets and of the predictions of an evaluation
PredRows ==
    {[box |-> <<0, 1, 2, 4>>, labels |-> 1, scores |-> 2],
     [box |-> <<1, 0, 5, 2>>, labels |-> 2, scores |-> 3]}

Preds ==
    {FromRows(rows, {"labels", "scores"}) : rows \in SeqsUpTo(PredRows, MaxPredRows)}

\* targets of compute_coco_eval: an image without boxes, an image with one
EvalTargets ==
    {FromRows(<<>>, {"labels"}),
     FromRows(<<[box |-> <<0, 1, 2, 4>>, labels |-> 1, scores |-> 0]>>, {"labels"})}

\* targets of get_coco_gt: no box, one box, two boxes of one or two labels
GtTargets ==
    {FromRows(rows, {"labels"}) :
        rows \in {<<>>,
                  <<[box |-> <<0, 1, 2, 4>>, labels |-> 1, scores |-> 0]>>,
                  <<[box |-> <<0, 1, 2, 4>>, labels |-> 1, scores |-> 0],
                    [box |-> <<-1, 0, 5, 2>>, labels |-> 2, scores |-> 0]>>,
                  <<[box |-> <<-1, 0, 5, 2>>, labels |-> 2, scores |-> 0],
                    [box |-> <<-1, 0, 5, 2>>, labels |-> 2, scores |-> 0]>>}}

ComputeCocoEvalCallsOf(m) ==
    {[op |-> "compute_coco_eval", outputs |-> o, targets |-> t, num_labels |-> c] :
        o \in [1..m -> Preds], t \in [1..m -> EvalTargets], c \in {MaxNumLabels}}

GetCocoGtCallsOf(m) ==
    {[op |-> "get_coco_gt", targets |-> t, num_labels |-> c] :
        t \in [1..m -> GtTargets], c \in 1..MaxNumLabels}

GetCocoPredsCallsOf(m) ==
    {[op |-> "get_coco_preds", outputs |-> o] : o \in [1..m -> Preds]}

InitEval ==
    /\ call \in UNION {ComputeCocoEvalCallsOf(m) \cup GetCocoGtCallsOf(m)
                           \cup GetCocoPredsCallsOf(m) : m \in 0..MaxImages}
    /\ ret = Pending
    /\ extern = NoCalls
    /\ NoObjects

GetCocoGt ==
    /\ IsPending(ret)
    /\ call.op = "get_coco_gt"
    /\ ret' = get_coco_gt(call.targets, call.num_labels)
    /\ UNCHANGED <<call, extern, objects>>

GetCocoPreds ==
    /\ IsPending(ret)
    /\ call.op = "get_coco_preds"
    /\ ret' = get_coco_preds(call.outputs)
    /\ UNCHANGED <<call, extern, objects>>

ComputeCocoEval ==
    /\ IsPending(ret)
    /\ call.op = "compute_coco_eval"
    /\ LET preds == get_coco_preds(call.outputs)
           gt == get_coco_gt(call.targets, call.num_labels)
       IN  IF Raised(preds) THEN ret' = preds /\ extern' = extern
           ELSE IF Len(preds.val) = 0 THEN ret' = None /\ extern' = extern
           ELSE IF Raised(gt) THEN ret' = gt /\ extern' = extern
           ELSE IF ~LoadResOk(gt, preds.val)
           THEN /\ ret' = Raise("AssertionError")
                /\ extern' = extern \o
                       <<[fn |-> "json_to_file", data |-> gt],
                         [fn |-> "COCO", data |-> gt]>>
           ELSE /\ ret' = coco_eval(gt, preds.val)
                /\ extern' = extern \o
                       <<[fn |-> "json_to_file", data |-> gt],
                         [fn |-> "COCO", data |-> gt],
                         [fn |-> "COCOeval", gt |-> gt, preds |-> preds.val]>>
    /\ UNCHANGED <<call, objects>>

NextEval == GetCocoGt \/ GetCocoPreds \/ ComputeCocoEval

SpecEval == InitEval /\ [][NextEval]_vars

---------------------------------------------------------------------------
(* class CocoDataset, built from two annotation files and no transform.    *)

\* image entries and annotations over both annotation files
MaxDsImages == 2
MaxDsAnns == 2

FileNames == {"a.png", "b.png"}
ImageIds == {1, 2}

ImageEntries == [file_name : FileNames, id : ImageIds]

\* bbox is [xmin, ymin, width, height]
AnnEntries ==
    {[image_id |-> 1, bbox |-> <<10, 20, 30, 40>>, category_id |-> 1],
     [image_id |-> 1, bbox |-> <<0, 5, 2, 1>>, category_id |-> 2],
     [image_id |-> 2, bbox |-> <<10, 20, 30, 40>>, category_id |-> 1]}

\* dict[k] = v
Put(dict, k, v) ==
    [x \in DOMAIN dict \cup {k} |-> IF x = k THEN v ELSE dict[x]]

\* defaultdict(lambda: [])[k].append(v)
PutAppend(dict, k, v) ==
    Put(dict, k, (IF k \in DOMAIN dict THEN dict[k] ELSE <<>>) \o <<v>>)

EmptyDict == [x \in {} |-> 0]

\* torch.tensor([[box[1], box[0], box[1] + box[3], box[0] + box[2]]])
ann_boxAsIs(bbox) == bbox

ann_box(bbox) == <<bbox[2], bbox[1], bbox[2] + bbox[4], bbox[1] + bbox[3]>>

\* the loop over one file's images, from entry i on
RECURSIVE load_images(_, _, _)
load_images(self, images, i) ==
    IF i > Len(images) THEN self
    ELSE load_images(
            [self EXCEPT !.imgs = Append(@, images[i].file_name),
                         !.img2id = Put(@, images[i].file_name, images[i].id),
                         !.id2img = Put(@, images[i].id, images[i].file_name)],
            images, i + 1)

\* the loop over one file's annotations, from entry i on
RECURSIVE load_annotations(_, _, _)
load_annotations(self, anns, i) ==
    IF i > Len(anns) THEN self
    ELSE load_annotations(
            [self EXCEPT !.id2boxes = PutAppend(@, anns[i].image_id, ann_box(anns[i].bbox)),
                         !.id2labels = PutAppend(@, anns[i].image_id, anns[i].category_id)],
            anns, i + 1)

\* the loop over the annotation files, from file f on
RECURSIVE load_files(_, _, _)
load_files(self, ann_jsons, f) ==
    IF f > Len(ann_jsons) THEN self
    ELSE load_files(
            load_annotations(load_images(self, ann_jsons[f].images, 1),
                             ann_jsons[f].annotations, 1),
            ann_jsons, f + 1)

\* torch.cat(boxes).float() and torch.tensor(labels), per image id
CocoDataset(img_dir, ann_jsons) ==
    LET loaded ==
            load_files([img_dir |-> img_dir, annotation_uris |-> ann_jsons,
                        transform |-> None, imgs |-> <<>>, img2id |-> EmptyDict,
                        id2img |-> EmptyDict, id2boxes |-> EmptyDict,
                        id2labels |-> EmptyDict],
                       ann_jsons, 1)
    IN  [loaded EXCEPT
            !.id2boxes = [id \in DOMAIN @ |->
                            [i \in 1..Len(@[id]) |-> ToList(@[id][i])]]]

\* Image.open(join(self.img_dir, img_fn))
open_image(img_dir, img_fn) == [opened |-> <<img_dir, img_fn>>]

getitem(self, ind) ==
    IF ind + 1 \notin 1..Len(self.imgs) THEN Raise("IndexError")
    ELSE LET img_fn == self.imgs[ind + 1]
             img_id == self.img2id[img_fn]
             img == open_image(self.img_dir, img_fn)
         IN  IF img_id \in DOMAIN self.id2boxes
             THEN [img |-> img,
                   boxlist |-> BoxList(self.id2boxes[img_id],
                                       [labels |-> self.id2labels[img_id]])]
             ELSE [img |-> img, boxlist |-> BoxList(<<>>, [labels |-> <<>>])]

dataset_len(self) == Len(self.imgs)

\* two annotation files: the image entries and the annotations, cut in two
Take(s, n) == [i \in 1..Min(n, Len(s)) |-> s[i]]
Drop(s, n) == [i \in 1..(Len(s) - Min(n, Len(s))) |-> s[Min(n, Len(s)) + i]]

FilePairs ==
    {<<[images |-> Take(images, ci), annotations |-> Take(anns, ca)],
       [images |-> Drop(images, ci), annotations |-> Drop(anns, ca)]>> :
        images \in SeqsUpTo(ImageEntries, MaxDsImages),
        anns \in SeqsUpTo(AnnEntries, MaxDsAnns),
        ci \in 0..MaxDsImages, ca \in 0..MaxDsAnns}

\* the annotation-format invariant: an annotation names an image of its file
ValidFile(file) ==
    \A i \in 1..Len(file.annotations) :
        \E j \in 1..Len(file.images) :
            file.images[j].id = file.annotations[i].image_id

InitDataset ==
    /\ call \in {[op |-> "CocoDataset", img_dir |-> "img", annotation_uris |-> files] :
                    files \in {fp \in FilePairs : ValidFile(fp[1]) /\ ValidFile(fp[2])}}
    /\ ret = Pending
    /\ extern = NoCalls
    /\ heap = <<>>
    /\ place = <<>>
    /\ ds = <<>>

DatasetInit ==
    /\ call.op = "CocoDataset"
    /\ IsPending(ret)
    /\ ds' = CocoDataset(call.img_dir, call.annotation_uris)
    /\ ret' = None
    /\ UNCHANGED <<call, extern, heap, place>>

DatasetGetItem ==
    /\ ds # <<>>
    /\ \E ind \in 0..Len(ds.imgs) :
           /\ call' = [op |-> "__getitem__", ind |-> ind]
           /\ ret' = getitem(ds, ind)
    /\ UNCHANGED <<extern, heap, place, ds>>

DatasetLen ==
    /\ ds # <<>>
    /\ call' = [op |-> "__len__"]
    /\ ret' = Return(dataset_len(ds))
    /\ UNCHANGED <<extern, heap, place, ds>>

NextDataset == DatasetInit \/ DatasetGetItem \/ DatasetLen

SpecDataset == InitDataset /\ [][NextDataset]_vars

---------------------------------------------------------------------------
(* BoxList instances by identity.  heap[i] is instance i, place[i] the     *)
(* device of its tensors and which of them lie in pinned memory.  call     *)
(* names the method, the instances it is given (inputs) and what they held *)
(* when it was called (before); ret is Ref(i) when instance i is returned. *)

\* instances alive, BoxLists given to cat, rows of a constructed BoxList
MaxObjs == 4
MaxCat == 2
MaxHeapRows == 1

\* nms(iou_thresh=0.5)
IouThreshNum == 1
IouThreshDen == 2

HeapRows ==
    {[box |-> <<0, 1, 2, 4>>, labels |-> 1, scores |-> 1],
     [box |-> <<-1, 1, 2, 4>>, labels |-> 1, scores |-> 2]}

ScoreThreshs == {1}
ClampSizes == {<<2, 3>>}
ScaleFactors == {<<2, 3>>}
Devices == {"cpu", "cuda"}

Ref(i) == [obj |-> i]
IsRef(v) == "obj" \in DOMAIN v

Fields(bl) == {"boxes"} \cup DOMAIN bl.extras

Snapshot(ids) == [j \in 1..Len(ids) |-> [value |-> heap[ids[j]], place |-> place[ids[j]]]]

Called(op, ids, args) ==
    call' = [op |-> op, inputs |-> ids, before |-> Snapshot(ids), args |-> args]

\* the method returns a BoxList it constructed, or raises
Constructs(result, where) ==
    IF Raised(result) THEN ret' = result /\ UNCHANGED <<heap, place>>
    ELSE /\ heap' = Append(heap, result)
         /\ place' = Append(place, where)
         /\ ret' = Ref(Len(heap) + 1)

\* boxes is a new tensor, the extras are the receiver's tensors
NewBoxes(i) == [dev |-> place[i].dev, pinned |-> place[i].pinned \ {"boxes"}]

\* every tensor is new
NewTensors(i) == [dev |-> place[i].dev, pinned |-> {}]

\* rows j of the result come from rows src[j] = <<input, row>> of the inputs
SameRows(i) == [j \in 1..len(heap[i]) |-> <<1, j>>]

InitBoxList ==
    /\ heap \in [1..2 -> BoxListsOver(HeapRows, MaxHeapRows)]
    /\ place = [i \in 1..2 |-> [dev |-> "cpu", pinned |-> {}]]
    /\ call = [op |-> "BoxList", inputs |-> <<>>, before |-> <<>>, args |-> <<>>]
    /\ ret = None
    /\ extern = NoCalls
    /\ ds = <<>>

\* methods are called while fewer than MaxObjs instances exist
CanCall == Len(heap) < MaxObjs

Xyxy ==
    /\ CanCall
    /\ \E i \in 1..Len(heap) :
           /\ Called("xyxy", <<i>>, [src |-> SameRows(i)])
           /\ Constructs(xyxy(heap[i]), NewBoxes(i))
    /\ UNCHANGED <<extern, ds>>

Yxyx ==
    /\ CanCall
    /\ \E i \in 1..Len(heap) :
           /\ Called("yxyx", <<i>>, [src |-> SameRows(i)])
           /\ Constructs(yxyx(heap[i]), NewBoxes(i))
    /\ UNCHANGED <<extern, ds>>

ClampBoxes ==
    /\ CanCall
    /\ \E i \in 1..Len(heap), sz \in ClampSizes :
           /\ Called("clamp", <<i>>, [src |-> SameRows(i)])
           /\ Constructs(clamp(heap[i], sz[1], sz[2]), NewBoxes(i))
    /\ UNCHANGED <<extern, ds>>

Scale ==
    /\ CanCall
    /\ \E i \in 1..Len(heap), f \in ScaleFactors :
           /\ Called("scale", <<i>>, [src |-> SameRows(i)])
           /\ Constructs(scale(heap[i], f[1], f[2]), NewBoxes(i))
    /\ UNCHANGED <<extern, ds>>

\* the masks over the rows, and the rows in reverse
IndsFor(bl) ==
    {Mask(m) : m \in [1..len(bl) -> BOOLEAN]}
        \cup {Index([j \in 1..len(bl) |-> len(bl) + 1 - j])}

Kept(inds) == IF inds.kind = "mask" THEN TrueInds(inds.val, 1) ELSE inds.val

IndFilter ==
    /\ CanCall
    /\ \E i \in 1..Len(heap) : \E inds \in IndsFor(heap[i]) :
           /\ Called("ind_filter", <<i>>,
                     [src |-> [j \in 1..Len(Kept(inds)) |-> <<1, Kept(inds)[j]>>]])
           /\ Constructs(ind_filter(heap[i], inds), NewTensors(i))
    /\ UNCHANGED <<extern, ds>>

ScoreFilter ==
    /\ CanCall
    /\ \E i \in 1..Len(heap), t \in ScoreThreshs :
           /\ Called("score_filter", <<i>>,
                     [src |-> IF has_field(heap[i], "scores")
                              THEN LET scores == heap[i].extras["scores"]
                                       keep == TrueInds([r \in 1..Len(scores) |->
                                                            scores[r] > t], 1)
                                   IN  [j \in 1..Len(keep) |-> <<1, keep[j]>>]
                              ELSE <<>>])
           /\ Constructs(score_filter(heap[i], t), NewTensors(i))
    /\ UNCHANGED <<extern, ds>>

\* the orders batched_nms may visit the rows in
NmsOrders(bl) ==
    IF has_field(bl, "scores") /\ Len(bl.extras["scores"]) = len(bl)
    THEN ScoreOrders(bl.extras["scores"]) ELSE {<<>>}

Nms ==
    /\ CanCall
    /\ \E i \in 1..Len(heap) : \E order \in NmsOrders(heap[i]) :
           LET result == nms(heap[i], order, IouThreshNum, IouThreshDen)
           IN  /\ Called("nms", <<i>>,
                         [src |-> IF Raised(result) \/ result = IsSelf THEN <<>>
                                  ELSE LET good_inds ==
                                               batched_nms(heap[i].boxes,
                                                   heap[i].extras["scores"],
                                                   heap[i].extras["labels"], order,
                                                   IouThreshNum, IouThreshDen)
                                       IN  [j \in 1..Len(good_inds) |-> <<1, good_inds[j]>>]])
               /\ IF result = IsSelf
                  THEN ret' = Ref(i) /\ UNCHANGED <<heap, place>>
                  ELSE Constructs(result, NewTensors(i))
    /\ UNCHANGED <<extern, ds>>

\* torch.cat needs all tensors on one device
SameDevice(ids) == \A p, q \in 1..Len(ids) : place[ids[p]].dev = place[ids[q]].dev

CatSrc(ids) ==
    TorchCat([p \in 1..Len(ids) |-> [r \in 1..len(heap[ids[p]]) |-> <<p, r>>]])

Cat ==
    /\ CanCall
    /\ \E ids \in SeqsUpTo(1..Len(heap), MaxCat) :
           /\ Called("cat", ids, [src |-> CatSrc(ids)])
           /\ IF ~SameDevice(ids)
              THEN ret' = Raise("RuntimeError") /\ UNCHANGED <<heap, place>>
              ELSE Constructs(cat([p \in 1..Len(ids) |-> heap[ids[p]]]),
                              [dev |-> IF Len(ids) = 0 THEN "cpu" ELSE place[ids[1]].dev,
                               pinned |-> {}])
    /\ UNCHANGED <<extern, ds>>

\* Tensor.cpu() of a tensor on the CPU is the tensor itself
cpu_place(i) ==
    IF place[i].dev = "cpu" THEN place[i] ELSE [dev |-> "cpu", pinned |-> {}]

cuda_place(i) ==
    IF place[i].dev = "cuda" THEN place[i] ELSE [dev |-> "cuda", pinned |-> {}]

Cpu ==
    /\ CanCall
    /\ \E i \in 1..Len(heap) :
           /\ Called("cpu", <<i>>, [src |-> SameRows(i)])
           /\ Constructs(BoxList(heap[i].boxes, heap[i].extras), cpu_place(i))
    /\ UNCHANGED <<extern, ds>>

Cuda ==
    /\ CanCall
    /\ \E i \in 1..Len(heap) :
           /\ Called("cuda", <<i>>, [src |-> SameRows(i)])
           /\ Constructs(BoxList(heap[i].boxes, heap[i].extras), cuda_place(i))
    /\ UNCHANGED <<extern, ds>>

To ==
    /\ CanCall
    /\ \E i \in 1..Len(heap), device \in Devices :
           /\ Called("to", <<i>>, [src |-> SameRows(i)])
           /\ Constructs(BoxList(heap[i].boxes, heap[i].extras),
                         IF device = "cpu" THEN cpu_place(i) ELSE cuda_place(i))
    /\ UNCHANGED <<extern, ds>>

\* only tensors on the CPU can be pinned; the first assignment raises otherwise
PinMemory ==
    /\ CanCall
    /\ \E i \in 1..Len(heap) :
           /\ Called("pin_memory", <<i>>, [src |-> SameRows(i)])
           /\ IF place[i].dev # "cpu"
              THEN ret' = Raise("RuntimeError") /\ place' = place
              ELSE /\ place' = [place EXCEPT ![i].pinned = Fields(heap[i])]
                   /\ ret' = Ref(i)
    /\ UNCHANGED <<heap, extern, ds>>

NextBoxList ==
    \/ Xyxy \/ Yxyx \/ ClampBoxes \/ Scale \/ IndFilter \/ ScoreFilter
    \/ Nms \/ Cat \/ Cpu \/ Cuda \/ To \/ PinMemory

SpecBoxList == InitBoxList /\ [][NextBoxList]_vars

---------------------------------------------------------------------------
(* PyTorchObjectDetectionSampleWriter.  heap[1] is the writer; extern is   *)
(* the sequence of calls it makes to the file system (make_dir, save_img,  *)
(* json_to_file).  The base class PyTorchLearnerSampleWriter provides      *)
(* sample_dir and sample_ind in its __enter__ and packs the directory in   *)
(* its __exit__.  Box coordinates of a sample are floats, held in halves   *)
(* of a pixel.                                                             *)

\* write_sample calls made on one writer
MaxSamples == 3

\* what the base class may start sample_ind at
StartInds == {0, 7}

ClassNames == {<<"car">>, <<"car", "building">>}

\* os.path.join
join(path, name) == Append(path, name)

\* '{}-{}.png'.format(scene_id, sample_ind)
img_fn(scene_id, sample_ind) == <<scene_id, "-", sample_ind, ".png">>

\* '{}-{}'.format(sample_ind, box_ind)
ann_id(sample_ind, box_ind) == <<sample_ind, "-", box_ind>>

\* int(i) of a float held in halves: towards zero
int(halves) == IF halves >= 0 THEN halves \div 2 ELSE -((-halves) \div 2)

\* [int(i) for i in [box[1], box[0], box[3] - box[1], box[2] - box[0]]]
sample_bbox(box) ==
    <<int(box[2]), int(box[1]), int(box[4] - box[2]), int(box[3] - box[1])>>

\* enumerate(self.class_config.names)
categories(names) == [i \in 1..Len(names) |-> [id |-> i - 1, name |-> names[i]]]

EmptySplits ==
    [train |-> [images |-> <<>>, annotations |-> <<>>],
     valid |-> [images |-> <<>>, annotations |-> <<>>]]

SplitNames == <<"train", "valid">>

split_of(sample) == IF sample.is_train THEN "train" ELSE "valid"

sample_image(self, sample) ==
    [file_name |-> img_fn(sample.scene_id, self.sample_ind),
     id |-> self.sample_ind,
     height |-> sample.chip.shape[1],
     width |-> sample.chip.shape[2]]

\* one annotation per (box, class_id) of zip(npboxes, class_ids)
sample_annotations(self, sample) ==
    [p \in 1..Min(Len(sample.npboxes), Len(sample.class_ids)) |->
        [id |-> ann_id(self.sample_ind, p - 1),
         image_id |-> self.sample_ind,
         bbox |-> sample_bbox(sample.npboxes[p]),
         category_id |-> sample.class_ids[p]]]

next_indSame(sample_ind) == sample_ind
next_ind(sample_ind) == sample_ind + 1

\* the writer after write_sample(sample)
write_sample(self, sample) ==
    [self EXCEPT
        !.splits[split_of(sample)].images = Append(@, sample_image(self, sample)),
        !.splits[split_of(sample)].annotations = @ \o sample_annotations(self, sample),
        !.sample_ind = next_ind(@)]

\* the files write_sample makes before it touches the writer
sample_files(self, sample) ==
    LET img_dir == join(join(self.sample_dir, split_of(sample)), "img")
    IN  <<[fn |-> "make_dir", path |-> img_dir],
          [fn |-> "save_img", chip |-> sample.chip,
           path |-> join(img_dir, img_fn(sample.scene_id, self.sample_ind))]>>

coco_dict(self, split) ==
    [images |-> self.splits[split].images,
     annotations |-> self.splits[split].annotations,
     categories |-> self.categories]

RECURSIVE exit_files(_, _)
exit_files(self, p) ==
    IF p > Len(SplitNames) THEN <<>>
    ELSE LET split == SplitNames[p]
             rest == exit_files(self, p + 1)
         IN  IF Len(self.splits[split].images) > 0
             THEN <<[fn |-> "json_to_file", obj |-> coco_dict(self, split),
                     path |-> join(join(self.sample_dir, split), "labels.json")]>>
                      \o rest
             ELSE rest

\* samples: local boxes (as global_to_local returns them) with class ids
SampleLabels ==
    {[npboxes |-> <<>>, class_ids |-> <<>>],
     [npboxes |-> <<<<1, 3, 5, 8>>>>, class_ids |-> <<0>>],
     [npboxes |-> <<<<-3, 0, 4, 7>>, <<1, 3, 5, 8>>>>, class_ids |-> <<1, 0>>]}

Samples ==
    {[is_train |-> t, scene_id |-> "scene", chip |-> [shape |-> <<4, 6>>],
      npboxes |-> l.npboxes, class_ids |-> l.class_ids] :
        t \in BOOLEAN, l \in SampleLabels}

NewWriter(names) ==
    [class_config |-> [names |-> names], sample_dir |-> None, sample_ind |-> None,
     splits |-> None, categories |-> None]

InitWriter ==
    /\ heap \in {<<NewWriter(names)>> : names \in ClassNames}
    /\ call = [op |-> "__init__"]
    /\ ret = None
    /\ extern = NoCalls
    /\ place = <<>>
    /\ ds = <<>>

SamplesWritten == Cardinality({p \in 1..Len(extern) : extern[p].fn = "make_dir"})

\* the with statement: __enter__ first, __exit__ last
WriterEnter ==
    /\ call.op = "__init__"
    /\ \E start \in StartInds :
           heap' = [heap EXCEPT ![1] =
                       [@ EXCEPT !.sample_dir = <<"sample_dir">>,
                                 !.sample_ind = start,
                                 !.splits = EmptySplits,
                                 !.categories = categories(heap[1].class_config.names)]]
    /\ call' = [op |-> "__enter__"]
    /\ ret' = Ref(1)
    /\ UNCHANGED <<extern, place, ds>>

\* save_img fails (the image is not written) or the sample is recorded
WriterWriteSample ==
    /\ call.op \in {"__enter__", "write_sample"}
    /\ SamplesWritten < MaxSamples
    /\ \E sample \in Samples, saved \in BOOLEAN :
           /\ call' = [op |-> "write_sample", sample |-> sample, before |-> heap[1]]
           /\ IF saved
              THEN /\ extern' = extern \o sample_files(heap[1], sample)
                   /\ heap' = [heap EXCEPT ![1] = write_sample(@, sample)]
                   /\ ret' = None
              ELSE /\ extern' = Append(extern, sample_files(heap[1], sample)[1])
                   /\ heap' = heap
                   /\ ret' = Raise("OSError")
    /\ UNCHANGED <<place, ds>>

WriterExit ==
    /\ call.op \in {"__enter__", "write_sample"}
    /\ call' = [op |-> "__exit__", before |-> heap[1], calls |-> Len(extern)]
    /\ extern' = extern \o exit_files(heap[1], 1)
    /\ ret' = None
    /\ UNCHANGED <<heap, place, ds>>

NextWriter == WriterEnter \/ WriterWriteSample \/ WriterExit

SpecWriter == InitWriter /\ [][NextWriter]_vars

---------------------------------------------------------------------------
(* Properties.                                                             *)

Done(op) == call.op = op /\ ~IsPending(ret)

\* the row of a BoxList as the claim reads it: the box, then the extras
RowOf(bl, i) ==
    bl.boxes[i] \o [j \in 1..Len(ExtrasKeys(bl)) |-> bl.extras[ExtrasKeys(bl)[j]][i]]

\* how often a row occurs in a BoxList
Occurs(bl, row) == Cardinality({i \in 1..len(bl) : RowOf(bl, i) = row})

SameMultiset(a, b) ==
    /\ len(a) = len(b)
    /\ \A i \in 1..len(a) : Occurs(a, RowOf(a, i)) = Occurs(b, RowOf(a, i))

\* C4: equal(other) is true if and only if both BoxLists have the same number
\* of rows and the same multiset of row tuples, whatever the row order; equal
\* length with the same distinct rows in other multiplicities is not equal.
C4_EqualIffSameMultiset ==
    Done("equal") =>
        /\ ~Raised(ret)
        /\ ret.val <=> SameMultiset(call.self, call.other)

\* the rows a score filter keeps: those whose score is above the threshold
Above(bl, t) == {i \in 1..len(bl) : bl.extras["scores"][i] > t}

\* the j-th kept row, in the original order
NthKept(bl, t, j) ==
    CHOOSE i \in Above(bl, t) : Cardinality({m \in Above(bl, t) : m < i}) = j - 1

\* C7: score_filter(t) on a BoxList with a scores field returns exactly the
\* rows whose score is strictly greater than t, in their original order, every
\* extra field filtered by the same rows, so that the result has as many rows
\* as the input has scores above t; without a scores field it raises
\* ValueError.
C7_ScoreFilterStrict ==
    Done("score_filter") =>
        LET self == call.self
            t == call.score_thresh
        IN  IF has_field(self, "scores")
            THEN /\ ~Raised(ret)
                 /\ len(ret) = Cardinality(Above(self, t))
                 /\ DOMAIN ret.extras = DOMAIN self.extras
                 /\ \A k \in DOMAIN ret.extras : Len(ret.extras[k]) = len(ret)
                 /\ \A j \in 1..len(ret) :
                        /\ ret.boxes[j] = self.boxes[NthKept(self, t, j)]
                        /\ \A k \in DOMAIN ret.extras :
                               ret.extras[k][j] = self.extras[k][NthKept(self, t, j)]
            ELSE ret = Raise("ValueError")

\* a filter that drops a row at the threshold and one below it, and keeps two
\* rows above it
C7_Witness ==
    /\ Done("score_filter")
    /\ has_field(call.self, "scores")
    /\ \E i \in 1..len(call.self) :
           call.self.extras["scores"][i] = call.score_thresh
    /\ ~Raised(ret)
    /\ len(ret) = 2
    /\ len(call.self) = 3
    /\ ret.boxes[1] # ret.boxes[2]

\* the j-th smallest element of a set of indices
NthOf(S, j) == CHOOSE i \in S : Cardinality({m \in S : m < i}) = j - 1

TrainingDone == Done("forward") /\ Truthy(call.targets)
InferenceDone == Done("forward") /\ ~Truthy(call.targets)

\* C1: in training mode the target handed to the wrapped detector has, for
\* every sample, k + 1 boxes and k + 1 labels, k the number of boxes of the
\* sample's BoxList: first the sample's own boxes in xyxy order with their
\* labels, last the box (0, 0, width, height) with label 0.
C1_TrainingTargets ==
    TrainingDone =>
        /\ Len(extern) = 1
        /\ Len(extern[1].targets.some) = Len(call.targets.some)
        /\ \A s \in 1..Len(call.targets.some) :
               LET y == call.targets.some[s]
                   t == extern[1].targets.some[s]
                   k == len(y)
               IN  /\ Len(t.boxes) = k + 1
                   /\ Len(t.labels) = k + 1
                   /\ \A i \in 1..k :
                          /\ t.boxes[i] = <<y.boxes[i][2], y.boxes[i][1],
                                            y.boxes[i][4], y.boxes[i][3]>>
                          /\ t.labels[i] = y.extras["labels"][i]
                   /\ t.boxes[k + 1] = <<0, 0, call.input.w, call.input.h>>
                   /\ t.labels[k + 1] = 0

\* a batch of an image without boxes and an image with two, not square
C1_Witness ==
    /\ TrainingDone
    /\ Len(call.targets.some) = 2
    /\ len(call.targets.some[1]) = 0
    /\ len(call.targets.some[2]) = 2
    /\ call.input.h # call.input.w
    /\ Len(extern[1].targets.some[1].boxes) = 1
    /\ Len(extern[1].targets.some[2].boxes) = 3

\* C2: in inference mode the result holds one BoxList per detector output, in
\* order; none has a row with label 0; every detector row whose label is not 0
\* is returned, in the detector's order, its box turned from xyxy to yxyx, its
\* label and score unchanged and aligned with the box.
C2_InferenceFiltered ==
    InferenceDone =>
        /\ Len(ret.val) = Len(extern[1].out)
        /\ \A s \in 1..Len(ret.val) :
               LET out == extern[1].out[s]
                   bl == ret.val[s]
                   real == {i \in 1..Len(out.labels) : out.labels[i] # 0}
               IN  /\ ~Raised(bl)
                   /\ DOMAIN bl.extras = {"labels", "scores"}
                   /\ len(bl) = Cardinality(real)
                   /\ Len(bl.extras["labels"]) = len(bl)
                   /\ Len(bl.extras["scores"]) = len(bl)
                   /\ \A j \in 1..len(bl) :
                          LET i == NthOf(real, j)
                          IN  /\ bl.extras["labels"][j] # 0
                              /\ bl.boxes[j] = <<out.boxes[i][2], out.boxes[i][1],
                                                 out.boxes[i][4], out.boxes[i][3]>>
                              /\ bl.extras["labels"][j] = out.labels[i]
                              /\ bl.extras["scores"][j] = out.scores[i]

\* two images; the detector returns a label-0 row before a real one
C2_Witness ==
    /\ InferenceDone
    /\ Len(ret.val) = 2
    /\ Len(extern[1].out[1].labels) = 2
    /\ extern[1].out[1].labels[1] = 0
    /\ extern[1].out[1].labels[2] # 0
    /\ len(ret.val[1]) = 1
    /\ len(ret.val[2]) = 2

RECURSIVE TotalBoxes(_)
TotalBoxes(outputs) ==
    IF Len(outputs) = 0 THEN 0 ELSE len(Head(outputs)) + TotalBoxes(Tail(outputs))

\* C5: compute_coco_eval returns None, without raising, building ground truth
\* or invoking the COCO evaluator, exactly when the prediction BoxLists hold
\* zero boxes in total; with at least one predicted box it returns the
\* evaluator's accumulated result object.
C5_NoneIffNoPredictions ==
    Done("compute_coco_eval") =>
        /\ ~Raised(ret)
        /\ IsNone(ret) <=> TotalBoxes(call.outputs) = 0
        /\ IsNone(ret) => extern = <<>>
        /\ ~IsNone(ret) =>
               /\ Len(extern) > 0
               /\ extern[Len(extern)].fn = "COCOeval"
               /\ ret = coco_eval(extern[Len(extern)].gt, extern[Len(extern)].preds)
               /\ Len(ret.cocoDt) = TotalBoxes(call.outputs)
               /\ Len(ret.cocoGt.images) = Len(call.targets)

\* two images with targets and no predicted box
C5_Witness ==
    /\ Done("compute_coco_eval")
    /\ Len(call.outputs) = 2
    /\ TotalBoxes(call.outputs) = 0
    /\ len(call.targets[1]) > 0
    /\ IsNone(ret)

GtDone == Done("get_coco_gt") /\ ~Raised(ret)

IdsOf(records) == {records[i].id : i \in 1..Len(records)}

\* what the record set always satisfies: image ids, annotation ids, image
\* references, the categories
GtShape(gt, targets, num_labels) ==
    /\ Len(gt.images) = Len(targets)
    /\ \A s \in 1..Len(gt.images) : gt.images[s].id = s
    /\ \A i, j \in 1..Len(gt.annotations) :
           i # j => gt.annotations[i].id # gt.annotations[j].id
    /\ \A i \in 1..Len(gt.annotations) :
           gt.annotations[i].image_id \in IdsOf(gt.images)
    /\ Len(gt.categories) = num_labels
    /\ IdsOf(gt.categories) = 0..(num_labels - 1)

\* the annotations of image s, in order
AnnsOf(gt, s) == SelectSeq(gt.annotations, LAMBDA a : a.image_id = s)

\* C8 as stated: for every list of targets and every num_labels the record
\* set of get_coco_gt has image ids 1..len(targets) in input order, distinct
\* annotation ids, every image_id the id of an image and every category_id
\* the id of a category, the categories being the ids 0..num_labels-1.
C8_GtReferencesExist ==
    GtDone =>
        /\ GtShape(ret, call.targets, call.num_labels)
        /\ \A i \in 1..Len(ret.annotations) :
               ret.annotations[i].category_id \in IdsOf(ret.categories)

\* C8 as amended: image ids, annotation ids, image references and categories
\* as stated; every annotation's category_id is the label of its box, which
\* is the id of a category exactly when it lies in 0..num_labels-1.
C8_GtCategoryIsLabel ==
    GtDone =>
        /\ GtShape(ret, call.targets, call.num_labels)
        /\ \A s \in 1..Len(call.targets) :
               LET y == call.targets[s]
                   anns == AnnsOf(ret, s)
               IN  /\ Len(anns) = len(y)
                   /\ \A i \in 1..Len(anns) :
                          /\ anns[i].category_id = y.extras["labels"][i]
                          /\ anns[i].category_id \in IdsOf(ret.categories)
                                 <=> y.extras["labels"][i] \in 0..(call.num_labels - 1)

\* two images with two boxes each, one label in range and one out of range
C8_Witness ==
    /\ GtDone
    /\ Len(call.targets) = 2
    /\ Len(ret.annotations) = 4
    /\ \E i \in 1..4 : ret.annotations[i].category_id \in IdsOf(ret.categories)
    /\ \E i \in 1..4 : ret.annotations[i].category_id \notin IdsOf(ret.categories)

\* the image entries and the annotations of all annotation files, in order
AllImages == ds.annotation_uris[1].images \o ds.annotation_uris[2].images
AllAnnotations == ds.annotation_uris[1].annotations \o ds.annotation_uris[2].annotations

\* the BoxList of the annotations whose image_id is id, in annotation order
AnnotatedBoxList(id) ==
    LET anns == SelectSeq(AllAnnotations, LAMBDA a : a.image_id = id)
    IN  BoxList([i \in 1..Len(anns) |->
                    <<anns[i].bbox[2], anns[i].bbox[1],
                      anns[i].bbox[2] + anns[i].bbox[4],
                      anns[i].bbox[1] + anns[i].bbox[3]>>],
                [labels |-> [i \in 1..Len(anns) |-> anns[i].category_id]])

\* the id of the last image entry that bears a file name
LastIdOf(file_name) ==
    LET at == {i \in 1..Len(AllImages) : AllImages[i].file_name = file_name}
    IN  AllImages[CHOOSE i \in at : \A m \in at : m <= i].id

GotItem == ds # <<>> /\ call.op = "__getitem__" /\ ~Raised(ret)

\* C6 as stated: get(index) returns the annotations whose image_id is the id
\* of the image at that index, in annotation order, each box
\* [xmin, ymin, width, height] as (ymin, xmin, ymin+height, xmin+width) with
\* its category_id as label, a zero-row BoxList with empty labels for an image
\* without annotations; the length is the number of image entries of all
\* annotation files.
C6_GetOwnAnnotations ==
    /\ GotItem => ret.boxlist = AnnotatedBoxList(AllImages[call.ind + 1].id)
    /\ (ds # <<>> /\ call.op = "__len__") => ret.val = Len(AllImages)

\* C6 as amended: the annotations returned are those whose image_id is the id
\* of the last image entry, over all files, that bears the file name of the
\* image at that index.
C6_GetAnnotationsOfFileName ==
    /\ GotItem =>
           /\ ret.boxlist = AnnotatedBoxList(LastIdOf(AllImages[call.ind + 1].file_name))
           /\ ret.img = [opened |-> <<ds.img_dir, AllImages[call.ind + 1].file_name>>]
    /\ (ds # <<>> /\ call.op = "__getitem__" /\ Raised(ret)) =>
           call.ind + 1 \notin 1..Len(AllImages)
    /\ (ds # <<>> /\ call.op = "__len__") => ret.val = Len(AllImages)

\* an image of the second file with two annotations, and an earlier image
\* entry of the same file name and another id
C6_Witness ==
    /\ GotItem
    /\ Len(ds.annotation_uris[1].images) = 1
    /\ Len(ds.annotation_uris[2].images) = 1
    /\ call.ind = 0
    /\ AllImages[1].file_name = AllImages[2].file_name
    /\ AllImages[1].id # AllImages[2].id
    /\ len(ret.boxlist) = 2
    /\ ret.boxlist.boxes[1] # ret.boxlist.boxes[2]

---------------------------------------------------------------------------
(* BoxList instances.                                                      *)

CatDone == call.op = "cat"

KeysDiffer(before) ==
    \E p, q \in 1..Len(before) :
        DOMAIN before[p].value.extras # DOMAIN before[q].value.extras

\* C3: BoxList.cat fails whenever the BoxLists it is given do not all have
\* the same set of extra-field names; it never returns a BoxList then.
C3_CatRejectsDifferingKeys ==
    CatDone /\ KeysDiffer(call.before) => Raised(ret)

MethodDone == call.op # "BoxList" /\ ~Raised(ret)

InputsUnchanged ==
    \A j \in 1..Len(call.inputs) : heap[call.inputs[j]] = call.before[j].value

\* the instance returned was constructed by the call
ReturnsNew ==
    /\ IsRef(ret)
    /\ ret.obj = Len(heap)
    /\ \A j \in 1..Len(call.inputs) : ret.obj # call.inputs[j]

\* C9: every BoxList method other than pin_memory returns a newly
\* constructed BoxList that is not the receiver, also for a receiver of
\* zero rows, and leaves the boxes and extras of the receiver and of every
\* BoxList it is given unchanged; pin_memory returns the receiver itself.
C9_ReturnsNewInstance ==
    MethodDone =>
        /\ InputsUnchanged
        /\ IF call.op = "pin_memory"
           THEN ret = Ref(call.inputs[1])
           ELSE ReturnsNew

\* every extra field has as many entries as there are boxes
Aligned(bl) == \A k \in DOMAIN bl.extras : Len(bl.extras[k]) = len(bl)

TransformOps ==
    {"xyxy", "yxyx", "cat", "ind_filter", "score_filter", "clamp", "nms", "scale"}

\* entry j of each extra of the result is the one of the row it came from
FromSource(result, before, src) ==
    /\ Len(src) = len(result)
    /\ \A j \in 1..Len(src), k \in DOMAIN result.extras :
           LET from == before[src[j][1]].value
           IN  /\ k \in DOMAIN from.extras
               /\ src[j][2] \in 1..Len(from.extras[k])
               /\ result.extras[k][j] = from.extras[k][src[j][2]]

\* C10: starting from BoxLists whose extras all have as many entries as
\* there are boxes, every BoxList produced by xyxy, yxyx, cat, ind_filter,
\* score_filter, clamp, nms and scale has every extra field with exactly N
\* entries, entry i being the one that belonged to box i where it came from.
C10_ExtrasStayAligned ==
    /\ \A i \in 1..Len(heap) : Aligned(heap[i])
    /\ MethodDone /\ call.op \in TransformOps
           => FromSource(heap[ret.obj], call.before, call.args.src)

---------------------------------------------------------------------------
(* Sample writer.                                                          *)

Entered == call.op \in {"__enter__", "write_sample", "__exit__"}

RecordedImages == heap[1].splits.train.images \o heap[1].splits.valid.images

DistinctImageIds ==
    \A i, j \in 1..Len(RecordedImages) :
        i # j => RecordedImages[i].id # RecordedImages[j].id

OtherSplit(split) == IF split = "train" THEN "valid" ELSE "train"

\* the last write_sample returned: one image more in the sample's split
AddsOneImage ==
    call.op = "write_sample" /\ ~Raised(ret) =>
        LET split == IF call.sample.is_train THEN "train" ELSE "valid"
            was == call.before.splits
            now == heap[1].splits
        IN  /\ Len(now[split].images) = Len(was[split].images) + 1
            /\ \A p \in 1..Len(was[split].images) :
                   now[split].images[p] = was[split].images[p]
            /\ now[OtherSplit(split)].images = was[OtherSplit(split)].images

AnnotationsHaveImages ==
    \A split \in {"train", "valid"} :
        \A a \in 1..Len(heap[1].splits[split].annotations) :
            \E p \in 1..Len(heap[1].splits[split].images) :
                heap[1].splits[split].images[p].id
                    = heap[1].splits[split].annotations[a].image_id

LabelsWritten == {p \in 1..Len(extern) : extern[p].fn = "json_to_file"}

LabelsPath(split) == <<"sample_dir", split, "labels.json">>

\* labels.json is written by __exit__ only, once for each split with images
WritesNonEmptySplits ==
    IF call.op = "__exit__"
    THEN /\ \A p \in LabelsWritten : p > call.calls
         /\ \A split \in {"train", "valid"} :
                Cardinality({p \in LabelsWritten : extern[p].path = LabelsPath(split)})
                    = IF Len(heap[1].splits[split].images) > 0 THEN 1 ELSE 0
         /\ \A p \in LabelsWritten :
                \E split \in {"train", "valid"} :
                    /\ extern[p].path = LabelsPath(split)
                    /\ extern[p].obj.images = heap[1].splits[split].images
                    /\ extern[p].obj.annotations = heap[1].splits[split].annotations
    ELSE LabelsWritten = {}

\* C11: after __enter__ and any sequence of write_sample calls with train
\* and valid samples, no two recorded images of the two splits share an id,
\* each call adds exactly one image to the split of its sample and none to
\* the other, every annotation of a split has the id of an image of the same
\* split as its image_id, and __exit__ writes a labels.json record set for
\* exactly the splits that have at least one image.
C11_WriterSplitsConsistent ==
    Entered =>
        /\ DistinctImageIds
        /\ AddsOneImage
        /\ AnnotationsHaveImages
        /\ WritesNonEmptySplits

\* two train samples and a valid sample were written, with annotations,
\* and __exit__ wrote both record sets
C11_Witness ==
    /\ call.op = "__exit__"
    /\ Len(heap[1].splits.train.images) = 2
    /\ Len(heap[1].splits.valid.images) = 1
    /\ Len(heap[1].splits.train.annotations) > 1
    /\ Len(heap[1].splits.valid.annotations) > 0
    /\ Cardinality(LabelsWritten) = 2

=============================================================================
